---- MODULE Spec2Model ----
(***************************************************************************)
(* Model of dotSync (src/dotSync.py): the file-set resolver, the two       *)
(* directional copy loops with line-ending normalization, and the          *)
(* pull / commit / push coordination of the `repo` and `local` commands.   *)
(***************************************************************************)
EXTENDS Integers, Sequences, FiniteSets, TLC

(* ---------------- bounds ---------------- *)
MaxLen == 4
MaxRuns == 2
MaxEdits == 2
MaxPullFiles == 1

(* ---------------- bytes and line-ending normalization ---------------- *)
CR == 13
LF == 10
Alphabet == {CR, LF, 120}

RECURSIVE ByteStrings(_)
ByteStrings(k) ==
  IF k = 0 THEN {<<>>}
  ELSE LET shorter == ByteStrings(k - 1)
       IN shorter \cup {Append(s, c) : s \in {t \in shorter : Len(t) = k - 1}, c \in Alphabet}

ConfigLineEnding == {"none", "lf", "crlf"}

IsPrefixAt(s, i, old) ==
  /\ i + Len(old) - 1 <= Len(s)
  /\ \A k \in 1..Len(old) : s[i + k - 1] = old[k]

\* bytes.replace(old, new): left-to-right, non-overlapping occurrences
RECURSIVE replaceFrom(_, _, _, _)
replaceFrom(s, i, old, new) ==
  IF i > Len(s) THEN <<>>
  ELSE IF IsPrefixAt(s, i, old) THEN new \o replaceFrom(s, i + Len(old), old, new)
  ELSE <<s[i]>> \o replaceFrom(s, i + 1, old, new)

replace(s, old, new) == replaceFrom(s, 1, old, new)

\* mutant: the crlf branch without the CR CR collapse
NormalizeNoCollapse(b, policy) ==
  IF policy = "lf" THEN replace(b, <<CR, LF>>, <<LF>>)
  ELSE IF policy = "crlf" THEN replace(b, <<LF>>, <<CR, LF>>)
  ELSE b

\* mutant: the crlf branch performs the lf replacement
NormalizeSwapped(b, policy) ==
  IF policy = "lf" THEN replace(b, <<CR, LF>>, <<LF>>)
  ELSE IF policy = "crlf" THEN replace(b, <<CR, LF>>, <<LF>>)
  ELSE b

Normalize(b, policy) ==
  IF policy = "lf" THEN replace(b, <<CR, LF>>, <<LF>>)
  ELSE IF policy = "crlf" THEN replace(replace(b, <<LF>>, <<CR, LF>>), <<CR, CR>>, <<CR>>)
  ELSE b

Contains(s, pat) == \E i \in 1..Len(s) : IsPrefixAt(s, i, pat)

VARIABLES nb, npolicy, nout, nout2, npc

normVars == <<nb, npolicy, nout, nout2, npc>>

InputNorm ==
  /\ nb \in ByteStrings(MaxLen)
  /\ npolicy = "none"
  /\ nout = <<>>
  /\ nout2 = <<>>
  /\ npc = "input"

NormalizeOnce ==
  /\ npc = "input"
  /\ \E p \in ConfigLineEnding :
       /\ npolicy' = p
       /\ nout' = Normalize(nb, p)
  /\ npc' = "once"
  /\ UNCHANGED <<nb, nout2>>

NormalizeTwice ==
  /\ npc = "once"
  /\ nout2' = Normalize(nout, npolicy)
  /\ npc' = "twice"
  /\ UNCHANGED <<nb, npolicy, nout>>


(* ---------------- file system, configuration and version control ---------------- *)
Names == {"a", "b", "c"}

Absent == [kind |-> "absent", bytes |-> <<>>]
Dir == [kind |-> "dir", bytes |-> <<>>]
File(b) == [kind |-> "file", bytes |-> b]

FileContents == {<<120, LF>>, <<120, CR, LF>>}
Files == {File(b) : b \in FileContents}
Entries == {Absent, Dir} \cup Files

RepoDirStates == {"git", "missing", "notdir", "nogit"}

\* --fileName values: none, a name stored at first ("a" and "b" start alike), one that is not
FileNameArguments == {"", "a", "c"}

VARIABLES
  config,          \* dotSync.properties: [location : BOOLEAN, lineEnding : "unset" or a policy]
  repoDir,         \* state of the DotFiles directory
  localFiles,      \* entries of the configured local directory, by name
  repoFiles,       \* entries of the DotFiles working copy, by name
  head,            \* content git has recorded for each tracked name (Absent: untracked)
  remoteAhead,     \* the remote holds commits the clone has not pulled
  pc,              \* position of the running command
  arguments,       \* parsed command line: [command, fileName, flag]
  file_names_to_sync,
  pending,         \* names the copy loop has not yet visited
  outcome,         \* per visited name: "no changes" or "overwritten"
  err,             \* error raised by the command ("" while none)
  errNames,        \* names listed in the error message
  steps,           \* stages the command went through, in order
  wroteRepo,       \* repository files written by the copy loop
  wroteLocal,      \* local files written by the copy loop
  pullChanged,     \* the command's pull reported something else than "Already up to date."
  committed,       \* a commit was made by the command
  pushed,          \* a push was made by the command
  message,         \* message returned by _commit_dot_file_changes
  snap,            \* files and version-control state when the command started
  atPrepare,       \* files when _prepare_for_sync ran
  prev,            \* how the previous command ended
  dirsChanged,     \* a directory or the configuration changed since the previous command ended
  remoteChanged,   \* the remote changed since the previous command ended
  repeatRun,       \* the command repeats the previous, completed one with nothing changed in between
  retry,           \* the command is a `repo --push` following one aborted by the remote check
  runs,
  edits,
  exitCode,        \* exit code of the process (-1 while it runs)
  stderr           \* what the process printed on standard error

envVars == <<config, repoDir, localFiles, repoFiles, head, remoteAhead>>
runVars == <<pc, arguments, file_names_to_sync, pending, outcome, err, errNames, steps,
             wroteRepo, wroteLocal, pullChanged, committed, pushed, message, snap, atPrepare,
             repeatRun, retry>>
histVars == <<prev, dirsChanged, remoteChanged, runs, edits, exitCode, stderr>>
vars == <<envVars, runVars, histVars, normVars>>

NoArguments == [command |-> "", fileName |-> "", flag |-> FALSE]
NoPrev == [command |-> "", fileName |-> "", result |-> ""]
Snapshot == [localFiles |-> localFiles, repoFiles |-> repoFiles, head |-> head,
             remoteAhead |-> remoteAhead, config |-> config]
NoOutcome == [n \in Names |-> ""]
NoMessage == [text |-> "", names |-> {}]
NoStderr == [prefix |-> "", kind |-> ""]

LineEndingSetting == IF config.lineEnding = "unset" THEN "none" ELSE config.lineEnding

IdleRun(s) ==
  /\ pc' = "idle"
  /\ arguments' = NoArguments
  /\ file_names_to_sync' = {}
  /\ pending' = {}
  /\ outcome' = NoOutcome
  /\ err' = ""
  /\ errNames' = {}
  /\ steps' = <<>>
  /\ wroteRepo' = {}
  /\ wroteLocal' = {}
  /\ pullChanged' = FALSE
  /\ committed' = FALSE
  /\ pushed' = FALSE
  /\ message' = NoMessage
  /\ snap' = s
  /\ atPrepare' = s
  /\ repeatRun' = FALSE
  /\ retry' = FALSE

InitSync ==
  /\ config \in [location : BOOLEAN, lineEnding : {"unset"}]
  /\ repoDir = "git"
  /\ localFiles = [n \in Names |-> IF n = "c" THEN Absent ELSE File(<<120, LF>>)]
  /\ repoFiles = [n \in Names |-> IF n = "c" THEN Absent ELSE File(<<120, LF>>)]
  /\ head = repoFiles
  /\ remoteAhead = FALSE
  /\ pc = "idle"
  /\ arguments = NoArguments
  /\ file_names_to_sync = {}
  /\ pending = {}
  /\ outcome = NoOutcome
  /\ err = ""
  /\ errNames = {}
  /\ steps = <<>>
  /\ wroteRepo = {}
  /\ wroteLocal = {}
  /\ pullChanged = FALSE
  /\ committed = FALSE
  /\ pushed = FALSE
  /\ message = NoMessage
  /\ snap = Snapshot
  /\ atPrepare = Snapshot
  /\ prev = NoPrev
  /\ dirsChanged = FALSE
  /\ remoteChanged = FALSE
  /\ repeatRun = FALSE
  /\ retry = FALSE
  /\ runs = 0
  /\ edits = 0
  /\ exitCode = -1
  /\ stderr = NoStderr

Init ==
  /\ InitSync
  /\ nb = <<>>
  /\ npolicy = "none"
  /\ nout = <<>>
  /\ nout2 = <<>>
  /\ npc = "off"

Idle == pc \in {"idle", "done", "failed"}

(* ---------------- the environment, between two commands ---------------- *)
\* the environment is observed only by a later command
Edited ==
  /\ edits < MaxEdits
  /\ runs < MaxRuns
  /\ edits' = edits + 1
  /\ exitCode' = -1
  /\ stderr' = NoStderr
  /\ UNCHANGED <<prev, runs, normVars>>

EditLocal ==
  /\ Idle
  /\ \E n \in Names, e \in Entries :
       /\ e # localFiles[n]
       /\ localFiles' = [localFiles EXCEPT ![n] = e]
       /\ IdleRun([Snapshot EXCEPT !.localFiles = localFiles'])
  /\ dirsChanged' = TRUE
  /\ Edited
  /\ UNCHANGED <<config, repoDir, repoFiles, head, remoteAhead, remoteChanged>>

\* a tracked file stays a regular file in the working copy
EditRepo ==
  /\ Idle
  /\ \E n \in Names, e \in Entries :
       /\ e # repoFiles[n]
       /\ head[n].kind = "file" => e.kind = "file"
       /\ repoFiles' = [repoFiles EXCEPT ![n] = e]
       /\ IdleRun([Snapshot EXCEPT !.repoFiles = repoFiles'])
  /\ dirsChanged' = TRUE
  /\ Edited
  /\ UNCHANGED <<config, repoDir, localFiles, head, remoteAhead, remoteChanged>>

EditRepoDir ==
  /\ Idle
  /\ \E s \in RepoDirStates :
       /\ s # repoDir
       /\ repoDir' = s
  /\ IdleRun(Snapshot)
  /\ dirsChanged' = TRUE
  /\ Edited
  /\ UNCHANGED <<config, localFiles, repoFiles, head, remoteAhead, remoteChanged>>

RemoteChange ==
  /\ Idle
  /\ ~remoteAhead
  /\ remoteAhead' = TRUE
  /\ IdleRun([Snapshot EXCEPT !.remoteAhead = TRUE])
  /\ remoteChanged' = TRUE
  /\ Edited
  /\ UNCHANGED <<config, repoDir, localFiles, repoFiles, head, dirsChanged>>

(* ---------------- config command ---------------- *)
\* _command_main_config: the branches that store a value (--location with a valid
\* directory, --lineEnding with one of the choices)
command_main_config ==
  /\ Idle
  /\ \/ /\ ~config.location
        /\ config' = [config EXCEPT !.location = TRUE]
     \/ \E ending \in ConfigLineEnding :
          /\ ending # config.lineEnding
          /\ config' = [config EXCEPT !.lineEnding = ending]
  /\ IdleRun([Snapshot EXCEPT !.config = config'])
  /\ dirsChanged' = TRUE
  /\ Edited
  /\ UNCHANGED <<repoDir, localFiles, repoFiles, head, remoteAhead, remoteChanged>>

(* ---------------- local and repo commands ---------------- *)
\* lines 328-329: the exception is printed and __main__ returns normally
ExitCodeAfterException == 0

\* the command ends: exit(0), or an exception caught by __main__
Finish(result) ==
  /\ prev' = [command |-> arguments.command, fileName |-> arguments.fileName, result |-> result]
  /\ dirsChanged' = FALSE
  /\ remoteChanged' = FALSE
  /\ IF result = "done"
     THEN /\ exitCode' = 0
          /\ UNCHANGED stderr
     ELSE /\ exitCode' = ExitCodeAfterException
          /\ stderr' = [prefix |-> "!!", kind |-> err']
  /\ UNCHANGED <<runs, edits>>

Raise(kind, names) ==
  /\ pc' = "failed"
  /\ err' = kind
  /\ errNames' = names
  /\ Finish(IF kind = "RemoteDiverged" THEN "diverged" ELSE "failed")

\* _main: dispatch on the parsed command
main ==
  /\ Idle
  /\ runs < MaxRuns
  /\ runs' = runs + 1
  /\ \E command \in {"repo", "local"}, fileName \in FileNameArguments, flag \in BOOLEAN :
       /\ arguments' = [command |-> command, fileName |-> fileName, flag |-> flag]
       /\ pc' = IF command = "local" /\ flag THEN "pull" ELSE "prepare"
       /\ repeatRun' = (/\ prev.result = "done"
                        /\ prev.command = command
                        /\ prev.fileName = fileName
                        /\ ~dirsChanged)
       /\ retry' = (/\ prev.result = "diverged"
                    /\ command = "repo"
                    /\ flag
                    /\ ~remoteChanged)
  /\ file_names_to_sync' = {}
  /\ pending' = {}
  /\ outcome' = NoOutcome
  /\ err' = ""
  /\ errNames' = {}
  /\ steps' = <<>>
  /\ wroteRepo' = {}
  /\ wroteLocal' = {}
  /\ pullChanged' = FALSE
  /\ committed' = FALSE
  /\ pushed' = FALSE
  /\ message' = NoMessage
  /\ snap' = Snapshot
  /\ atPrepare' = Snapshot
  /\ exitCode' = -1
  /\ stderr' = NoStderr
  /\ UNCHANGED <<envVars, prev, dirsChanged, remoteChanged, edits, normVars>>

PrepareError(kind, names) == [err |-> kind, errNames |-> names, names |-> {}]

\* mutant: the error message names only one of the missing files
prepare_for_sync_first_missing(args) ==
  IF ~config.location THEN PrepareError("NoLocation", {})
  ELSE IF repoDir = "missing" THEN PrepareError("RepoMissing", {})
  ELSE IF repoDir = "notdir" THEN PrepareError("RepoNotDir", {})
  ELSE IF repoDir = "nogit" THEN PrepareError("RepoNotGit", {})
  ELSE
    LET stored_dot_files == {n \in Names : repoFiles[n].kind = "file"}
        names == IF args.fileName # "" THEN {args.fileName} ELSE stored_dot_files
        repo_files_by_name == {n \in stored_dot_files : n \in names}
        local_files_by_name == {n \in Names : localFiles[n].kind # "absent" /\ n \in names}
        missing_files == {n \in names : n \notin local_files_by_name}
    IN IF stored_dot_files = {} THEN PrepareError("NoFiles", {})
       ELSE IF args.fileName # "" /\ args.fileName \notin stored_dot_files
         THEN PrepareError("NotFound", {args.fileName})
       ELSE IF local_files_by_name # repo_files_by_name
         THEN PrepareError("Consistency", {CHOOSE n \in missing_files : TRUE})
       ELSE [err |-> "", errNames |-> {}, names |-> names]

\* _prepare_for_sync: the error it raises, or the names it returns
prepare_for_sync(args) ==
  IF ~config.location THEN PrepareError("NoLocation", {})
  ELSE IF repoDir = "missing" THEN PrepareError("RepoMissing", {})
  ELSE IF repoDir = "notdir" THEN PrepareError("RepoNotDir", {})
  ELSE IF repoDir = "nogit" THEN PrepareError("RepoNotGit", {})
  ELSE
    LET stored_dot_files == {n \in Names : repoFiles[n].kind = "file"}
        names == IF args.fileName # "" THEN {args.fileName} ELSE stored_dot_files
        repo_files_by_name == {n \in stored_dot_files : n \in names}
        local_files_by_name == {n \in Names : localFiles[n].kind # "absent" /\ n \in names}
        missing_files == {n \in names : n \notin local_files_by_name}
    IN IF stored_dot_files = {} THEN PrepareError("NoFiles", {})
       ELSE IF args.fileName # "" /\ args.fileName \notin stored_dot_files
         THEN PrepareError("NotFound", {args.fileName})
       ELSE IF local_files_by_name # repo_files_by_name
         THEN PrepareError("Consistency", missing_files)
       ELSE [err |-> "", errNames |-> {}, names |-> names]

Prepare ==
  /\ pc = "prepare"
  /\ atPrepare' = Snapshot
  /\ LET r == prepare_for_sync(arguments)
     IN IF r.err # ""
        THEN /\ Raise(r.err, r.errNames)
             /\ UNCHANGED <<file_names_to_sync, pending>>
        ELSE /\ file_names_to_sync' = r.names
             /\ pending' = r.names
             /\ pc' = IF arguments.command = "repo" /\ arguments.flag THEN "check_remote" ELSE "sync"
             /\ UNCHANGED <<err, errNames, histVars>>
  /\ UNCHANGED <<envVars, arguments, outcome, steps, wroteRepo, wroteLocal, pullChanged,
                 committed, pushed, message, snap, repeatRun, retry, normVars>>

(* ---------------- git pull ---------------- *)
\* names whose working-copy entry is what git recorded: a merge may replace them
Clean(n) == repoFiles[n] = head[n]

PullTargets ==
  {S \in SUBSET Names : S # {} /\ Cardinality(S) <= MaxPullFiles /\ \A n \in S : Clean(n)}

PullChanges(S) == {f \in [S -> {Absent} \cup Files] : \A n \in S : f[n] # head[n]}

\* mutant: the fetched commits are not recorded, the clone stays behind the remote
pull_merge_stays_behind(S, f) ==
  /\ repoFiles' = [n \in Names |-> IF n \in S THEN f[n] ELSE repoFiles[n]]
  /\ head' = [n \in Names |-> IF n \in S THEN f[n] ELSE head[n]]
  /\ remoteAhead' = remoteAhead

\* repo.git.pull() when the remote is ahead: the merge rewrites the working copy
pull_merge(S, f) ==
  /\ repoFiles' = [n \in Names |-> IF n \in S THEN f[n] ELSE repoFiles[n]]
  /\ head' = [n \in Names |-> IF n \in S THEN f[n] ELSE head[n]]
  /\ remoteAhead' = FALSE

(* ---------------- repo command ---------------- *)
\* mutant: the copy loop is entered whatever the pull reported
after_check_remote_no_abort(files_updated) == "sync"

\* lines 254-258: abort when the pull changed something
after_check_remote(files_updated) == IF files_updated THEN "failed" ELSE "sync"

command_main_repo_check_remote ==
  /\ pc = "check_remote"
  /\ steps' = Append(steps, "check_remote")
  /\ \/ \* the pull itself fails
        /\ Raise("VcsOperation", {})
        /\ UNCHANGED <<envVars, pullChanged>>
     \/ \* "Already up to date."
        /\ ~remoteAhead
        /\ pc' = after_check_remote(FALSE)
        /\ UNCHANGED <<envVars, pullChanged, err, errNames, histVars>>
     \/ /\ remoteAhead
        /\ \E S \in PullTargets : \E f \in PullChanges(S) : pull_merge(S, f)
        /\ pullChanged' = TRUE
        /\ IF after_check_remote(TRUE) = "failed"
           THEN Raise("RemoteDiverged", {})
           ELSE /\ pc' = after_check_remote(TRUE)
                /\ UNCHANGED <<err, errNames, histVars>>
        /\ UNCHANGED <<config, repoDir, localFiles>>
  /\ UNCHANGED <<arguments, file_names_to_sync, pending, outcome, wroteRepo, wroteLocal,
                 committed, pushed, message, snap, atPrepare, repeatRun, retry, normVars>>

\* mutant: the repository file is always rewritten, as in src/sync.py
repo_outcome_always_overwritten(n) == "overwritten"

\* lines 262-274: compare the normalized local bytes with the repository bytes
repo_outcome(n) ==
  IF repoFiles[n].bytes = Normalize(localFiles[n].bytes, LineEndingSetting)
  THEN "no changes" ELSE "overwritten"

\* mutant: the push is attempted whether or not a commit was made
after_commit_always_push(commit_successful) == "push"

\* lines 279-285
after_commit(commit_successful) == IF commit_successful THEN "push" ELSE "done"

StepSync == IF steps # <<>> /\ steps[Len(steps)] = "sync" THEN steps ELSE Append(steps, "sync")

command_main_repo_sync_file ==
  /\ pc = "sync"
  /\ arguments.command = "repo"
  /\ \E file_name \in pending :
       IF localFiles[file_name].kind = "dir"
       THEN \* read_bytes() on a directory
            /\ Raise("IsADirectory", {file_name})
            /\ steps' = StepSync
            /\ UNCHANGED <<repoFiles, pending, outcome, wroteRepo>>
       ELSE /\ outcome' = [outcome EXCEPT ![file_name] = repo_outcome(file_name)]
            /\ IF outcome'[file_name] = "overwritten"
               THEN /\ repoFiles' = [repoFiles EXCEPT ![file_name] =
                                       File(Normalize(localFiles[file_name].bytes, LineEndingSetting))]
                    /\ wroteRepo' = wroteRepo \cup {file_name}
               ELSE UNCHANGED <<repoFiles, wroteRepo>>
            /\ pending' = pending \ {file_name}
            /\ IF pending' # {}
               THEN /\ pc' = "sync"
                    /\ steps' = StepSync
                    /\ UNCHANGED histVars
               ELSE IF arguments.flag
               THEN /\ pc' = "commit"
                    /\ steps' = StepSync
                    /\ UNCHANGED histVars
               ELSE /\ pc' = "done"
                    /\ steps' = Append(StepSync, "done")
                    /\ Finish("done")
            /\ UNCHANGED <<err, errNames>>
  /\ UNCHANGED <<config, repoDir, localFiles, head, remoteAhead, arguments, file_names_to_sync,
                 wroteLocal, pullChanged, committed, pushed, message, snap, atPrepare,
                 repeatRun, retry, normVars>>

\* mutant: untracked files of the working copy are listed too
modified_file_list_with_untracked == {n \in Names : repoFiles[n].kind = "file" /\ repoFiles[n] # head[n]}

\* git ls-files --modified: tracked names whose working copy differs from what git recorded
modified_file_list == {n \in Names : head[n].kind = "file" /\ repoFiles[n] # head[n]}

\* lines 276-285 with _commit_dot_file_changes
command_main_repo_commit ==
  /\ pc = "commit"
  /\ LET commit_successful == modified_file_list # {}
     IN /\ committed' = commit_successful
        /\ message' = IF commit_successful
                      THEN [text |-> "[dotSync] Updating dot files", names |-> modified_file_list]
                      ELSE [text |-> "No changes to commit", names |-> {}]
        /\ head' = [n \in Names |-> IF n \in modified_file_list THEN repoFiles[n] ELSE head[n]]
        /\ pc' = after_commit(commit_successful)
        /\ IF pc' = "done"
           THEN /\ steps' = steps \o <<"commit", "done">>
                /\ Finish("done")
           ELSE /\ steps' = Append(steps, "commit")
                /\ UNCHANGED histVars
  /\ UNCHANGED <<config, repoDir, localFiles, repoFiles, remoteAhead, arguments,
                 file_names_to_sync, pending, outcome, err, errNames, wroteRepo, wroteLocal,
                 pullChanged, pushed, snap, atPrepare, repeatRun, retry, normVars>>

\* lines 281-283 with _push_repo_changes_to_remote
command_main_repo_push ==
  /\ pc = "push"
  /\ \/ /\ pushed' = TRUE
        /\ pc' = "done"
        /\ steps' = steps \o <<"push", "done">>
        /\ Finish("done")
        /\ UNCHANGED <<err, errNames>>
     \/ \* the push itself fails
        /\ Raise("VcsOperation", {})
        /\ steps' = Append(steps, "push")
        /\ UNCHANGED pushed
  /\ UNCHANGED <<envVars, arguments, file_names_to_sync, pending, outcome, wroteRepo, wroteLocal,
                 pullChanged, committed, message, snap, atPrepare, repeatRun, retry, normVars>>

(* ---------------- local command ---------------- *)
\* lines 292-297
command_main_local_pull ==
  /\ pc = "pull"
  /\ steps' = Append(steps, "pull")
  /\ \/ \* Repo("DotFiles") or the pull itself fails
        /\ Raise(IF repoDir = "git" THEN "VcsOperation" ELSE "InvalidRepo", {})
        /\ UNCHANGED <<envVars, pullChanged, repeatRun>>
     \/ /\ repoDir = "git"
        /\ ~remoteAhead
        /\ pc' = "prepare"
        /\ UNCHANGED <<envVars, pullChanged, repeatRun, err, errNames, histVars>>
     \/ /\ repoDir = "git"
        /\ remoteAhead
        /\ \E S \in PullTargets : \E f \in PullChanges(S) : pull_merge(S, f)
        /\ pullChanged' = TRUE
        /\ repeatRun' = FALSE
        /\ pc' = "prepare"
        /\ UNCHANGED <<config, repoDir, localFiles, err, errNames, histVars>>
  /\ UNCHANGED <<arguments, file_names_to_sync, pending, outcome, wroteRepo, wroteLocal,
                 committed, pushed, message, snap, atPrepare, retry, normVars>>

\* mutant: the line-ending policy is applied to the bytes written locally
local_content_normalized(n) == Normalize(repoFiles[n].bytes, LineEndingSetting)

\* line 303: the repository bytes, verbatim
repo_content_bytes(n) == repoFiles[n].bytes

command_main_local_sync_file ==
  /\ pc = "sync"
  /\ arguments.command = "local"
  /\ \E file_name \in pending :
       IF localFiles[file_name].kind = "dir"
       THEN \* read_bytes() on a directory
            /\ Raise("IsADirectory", {file_name})
            /\ steps' = StepSync
            /\ UNCHANGED <<localFiles, pending, outcome, wroteLocal>>
       ELSE /\ IF localFiles[file_name].bytes = repo_content_bytes(file_name)
               THEN /\ outcome' = [outcome EXCEPT ![file_name] = "no changes"]
                    /\ UNCHANGED <<localFiles, wroteLocal>>
               ELSE /\ outcome' = [outcome EXCEPT ![file_name] = "overwritten"]
                    /\ localFiles' = [localFiles EXCEPT ![file_name] = File(repo_content_bytes(file_name))]
                    /\ wroteLocal' = wroteLocal \cup {file_name}
            /\ pending' = pending \ {file_name}
            /\ IF pending' # {}
               THEN /\ pc' = "sync"
                    /\ steps' = StepSync
                    /\ UNCHANGED histVars
               ELSE /\ pc' = "done"
                    /\ steps' = Append(StepSync, "done")
                    /\ Finish("done")
            /\ UNCHANGED <<err, errNames>>
  /\ UNCHANGED <<config, repoDir, repoFiles, head, remoteAhead, arguments, file_names_to_sync,
                 wroteRepo, pullChanged, committed, pushed, message, snap, atPrepare,
                 repeatRun, retry, normVars>>

Next ==
  \/ EditLocal
  \/ EditRepo
  \/ EditRepoDir
  \/ RemoteChange
  \/ command_main_config
  \/ main
  \/ Prepare
  \/ command_main_repo_check_remote
  \/ command_main_repo_sync_file
  \/ command_main_repo_commit
  \/ command_main_repo_push
  \/ command_main_local_pull
  \/ command_main_local_sync_file

Spec == Init /\ [][Next]_vars

(* ---------------- the normalizer on its own ---------------- *)
InitNorm ==
  /\ InputNorm
  /\ InitSync
  /\ config.location

NextNorm ==
  \/ NormalizeOnce /\ UNCHANGED <<envVars, runVars, histVars>>
  \/ NormalizeTwice /\ UNCHANGED <<envVars, runVars, histVars>>

SpecNorm == InitNorm /\ [][NextNorm]_vars

(* ---------------- helpers of the properties ---------------- *)
IsPrefix(s, t) == Len(s) <= Len(t) /\ \A i \in 1..Len(s) : s[i] = t[i]
StepSet == {steps[i] : i \in 1..Len(steps)}
Visited == {n \in Names : outcome[n] # ""}
NormalizedLocal(n) == Normalize(localFiles[n].bytes, LineEndingSetting)

(* ---------------- C1 ---------------- *)
\* C1: in a `repo --push` run whose pull reported changes, the command has failed with
\* the remote-diverged error, the copy loop visited and wrote nothing, and no commit
\* and no push was made.
C1_AbortBeforeWrite ==
  (arguments.command = "repo" /\ pullChanged) =>
    /\ pc = "failed"
    /\ err = "RemoteDiverged"
    /\ wroteRepo = {}
    /\ Visited = {}
    /\ pending = file_names_to_sync
    /\ ~committed
    /\ ~pushed
    /\ StepSet = {"check_remote"}

\* a diverged abort that kept the loop from overwriting a repository file
C1_Witness ==
  /\ arguments.command = "repo"
  /\ pullChanged
  /\ pc = "failed"
  /\ \E n \in file_names_to_sync :
       /\ localFiles[n].kind = "file"
       /\ repoFiles[n].kind = "file"
       /\ repoFiles[n].bytes # NormalizedLocal(n)

(* ---------------- C2 ---------------- *)
ResolutionErrors == {"NoLocation", "RepoMissing", "RepoNotDir", "RepoNotGit", "NoFiles",
                     "NotFound", "Consistency"}

RepoPushOrders == {<<"check_remote", "sync", "commit", "push", "done">>,
                   <<"check_remote", "sync", "commit", "done">>}

\* C3: a `repo --push` run goes through remote check, copy loop, commit, push, done in
\* that order; a push happens only after a commit of the same run; a run whose commit
\* step found nothing modified made no commit, reported "No changes to commit" and
\* skipped the push.  A `repo` run without --push goes through copy loop, done only and
\* touches no version-control state.
C3_StepOrder ==
  /\ (arguments.command = "repo" /\ arguments.flag) =>
       /\ \E t \in RepoPushOrders : IsPrefix(steps, t)
       /\ "push" \in StepSet => committed
       /\ pushed => committed
       /\ committed => (message.names # {} /\ "commit" \in StepSet)
       /\ ("commit" \in StepSet /\ ~committed) =>
            /\ message.text = "No changes to commit"
            /\ steps = <<"check_remote", "sync", "commit", "done">>
            /\ ~pushed
       /\ "commit" \in StepSet => modified_file_list = {}
       /\ pc = "done" => steps[Len(steps)] = "done"
  /\ (arguments.command = "repo" /\ ~arguments.flag) =>
       /\ IsPrefix(steps, <<"sync", "done">>)
       /\ ~pullChanged
       /\ ~committed
       /\ ~pushed
       /\ head = snap.head
       /\ remoteAhead = snap.remoteAhead

\* a push run that committed and pushed
C3_Witness ==
  /\ arguments.command = "repo"
  /\ arguments.flag
  /\ steps = <<"check_remote", "sync", "commit", "push", "done">>
  /\ pushed
  /\ wroteRepo # {}

(* ---------------- C4 ---------------- *)
\* the candidate names _prepare_for_sync looked for in the local directory
CandidateNames ==
  IF arguments.fileName # "" THEN {arguments.fileName}
  ELSE {n \in Names : atPrepare.repoFiles[n].kind = "file"}

\* _prepare_for_sync has run in the current command
Prepared ==
  /\ pc \notin {"idle", "prepare", "pull"}
  /\ ~(arguments.command = "local" /\ pc = "failed" /\ err \in {"VcsOperation", "InvalidRepo"})

StoredAtPrepare == {n \in Names : atPrepare.repoFiles[n].kind = "file"}
LocalAtPrepare == {n \in Names : atPrepare.localFiles[n].kind # "absent"}

\* C4: when resolution fails because tracked names are missing locally, the error names
\* exactly the candidate names absent from the local directory (all of them), and nothing
\* was written since resolution started; with repository files {a,b,c} and local names
\* {a,b}, no filter fails naming c and filter a resolves to the single name a.
C4_MissingNames ==
  /\ (pc = "failed" /\ err = "Consistency") =>
       /\ errNames = {n \in CandidateNames : atPrepare.localFiles[n].kind = "absent"}
       /\ errNames # {}
       /\ file_names_to_sync = {}
       /\ wroteRepo = {}
       /\ wroteLocal = {}
       /\ localFiles = atPrepare.localFiles
       /\ repoFiles = atPrepare.repoFiles
  /\ (/\ Prepared
      /\ config.location
      /\ repoDir = "git"
      /\ StoredAtPrepare = {"a", "b", "c"}
      /\ LocalAtPrepare = {"a", "b"}) =>
       /\ arguments.fileName = "" => (pc = "failed" /\ err = "Consistency" /\ errNames = {"c"})
       /\ arguments.fileName = "a" => (err # "Consistency" /\ file_names_to_sync = {"a"})

\* a resolution failure with more than one missing name
C4_Witness ==
  /\ pc = "failed"
  /\ err = "Consistency"
  /\ Cardinality(errNames) = 2

(* ---------------- C5 ---------------- *)
\* C5: a `repo` (or `local`) run that repeats the previous, completed run of the same
\* command with no change to either directory or the configuration in between reports
\* "no changes" for every file it visits and writes nothing.
C5_Idempotent ==
  repeatRun =>
    /\ wroteRepo = {}
    /\ wroteLocal = {}
    /\ \A n \in Visited : outcome[n] = "no changes"

\* a repeated repo run under the crlf policy whose local and repository bytes differ
C5_Witness ==
  /\ repeatRun
  /\ pc = "done"
  /\ arguments.command = "repo"
  /\ config.lineEnding = "crlf"
  /\ \E n \in file_names_to_sync : localFiles[n] # repoFiles[n]

(* ---------------- C8 ---------------- *)
\* C8: in a `local` run the copy loop writes no repository file (the repository files stay
\* as they were when resolution ran), every visited local file is byte-identical to its
\* repository file whatever the line-ending policy, and a completed run visited every
\* resolved name.
C8_LocalVerbatim ==
  arguments.command = "local" =>
    /\ wroteRepo = {}
    /\ Prepared => repoFiles = atPrepare.repoFiles
    /\ \A n \in Visited : localFiles[n] = repoFiles[n]
    /\ pc = "done" => (Visited = file_names_to_sync /\ file_names_to_sync # {})

\* a completed local run that overwrote a file the policy would have rewritten
C8_Witness ==
  /\ arguments.command = "local"
  /\ pc = "done"
  /\ \E n \in wroteLocal : Normalize(repoFiles[n].bytes, LineEndingSetting) # repoFiles[n].bytes

(* ---------------- C9 ---------------- *)
\* C9: every name handed to a copy loop is a regular file in the repository directory
\* and in the local directory.
C9_RegularFilesOnly ==
  \A n \in file_names_to_sync :
    /\ atPrepare.repoFiles[n].kind = "file"
    /\ atPrepare.localFiles[n].kind = "file"

(* ---------------- C10 ---------------- *)
ConfigurationErrors == {"NoLocation", "RepoMissing", "RepoNotDir", "RepoNotGit", "InvalidRepo",
                        "NoFiles"}

\* C10: a command that failed with a configuration error changed no local file, no
\* repository working-copy file and no version-control state.
C10_NoSideEffects ==
  (pc = "failed" /\ err \in ConfigurationErrors) =>
    /\ localFiles = snap.localFiles
    /\ repoFiles = snap.repoFiles
    /\ head = snap.head
    /\ remoteAhead = snap.remoteAhead

(* ---------------- C6 ---------------- *)
\* C6 as stated: normalizing twice with the lf or the crlf policy gives the same bytes as
\* normalizing once, for every byte string.
C6_Original ==
  (npc = "twice" /\ npolicy \in {"lf", "crlf"}) => nout2 = nout

\* C6 amended: normalizing twice gives the same bytes as normalizing once, for every
\* policy and every byte string in which no CR byte is immediately followed by another CR.
C6_IdempotentNoAdjacentCR ==
  (npc = "twice" /\ ~Contains(nb, <<CR, CR>>)) => nout2 = nout

\* a string mixing CRLF and bare LF terminators, normalized twice to crlf
C6_Witness ==
  /\ npc = "twice"
  /\ npolicy = "crlf"
  /\ ~Contains(nb, <<CR, CR>>)
  /\ Contains(nb, <<CR, LF>>)
  /\ nout # nb

(* ---------------- C7 ---------------- *)
NoBareLF(s) == \A i \in 1..Len(s) : s[i] = LF => (i > 1 /\ s[i - 1] = CR)
CountLF(s) == Cardinality({i \in 1..Len(s) : s[i] = LF})

\* each LF that no CR precedes becomes CR LF; every other byte is kept
RECURSIVE TerminatorsToCRLF(_, _)
TerminatorsToCRLF(s, i) ==
  IF i > Len(s) THEN <<>>
  ELSE (IF s[i] = LF /\ (i = 1 \/ s[i - 1] # CR) THEN <<CR, LF>> ELSE <<s[i]>>)
       \o TerminatorsToCRLF(s, i + 1)

\* C7 as stated: for every byte string the crlf result has no bare LF and no CR CR LF,
\* and for a string without CR it is the string with each LF replaced by CR LF.
C7_Original ==
  (npc = "once" /\ npolicy = "crlf") =>
    /\ NoBareLF(nout)
    /\ ~Contains(nout, <<CR, CR, LF>>)
    /\ ~Contains(nb, <<CR>>) => nout = replace(nb, <<LF>>, <<CR, LF>>)

\* C7 amended: for every byte string the crlf result has no bare LF and as many LF bytes
\* as the input; for every byte string in which no CR is immediately followed by another
\* CR, the result has no CR CR LF and is the input with each LF or CRLF terminator turned
\* into exactly one CRLF, all other bytes kept.
C7_CrlfTerminators ==
  (npc = "once" /\ npolicy = "crlf") =>
    /\ NoBareLF(nout)
    /\ CountLF(nout) = CountLF(nb)
    /\ ~Contains(nb, <<CR, CR>>) =>
         /\ ~Contains(nout, <<CR, CR, LF>>)
         /\ nout = TerminatorsToCRLF(nb, 1)

\* a string with a CRLF and a bare LF terminator normalized to crlf
C7_Witness ==
  /\ npc = "once"
  /\ npolicy = "crlf"
  /\ ~Contains(nb, <<CR, CR>>)
  /\ Contains(nb, <<CR, LF>>)
  /\ ~NoBareLF(nb)

(* ---------------- C11 ---------------- *)
\* tracked names the working copy already held modified when the command started
ModifiedAtStart ==
  {n \in Names : snap.head[n].kind = "file" /\ snap.repoFiles[n] # snap.head[n]}

\* C11 as stated: in a `repo --push` run a commit is made only if some file's outcome was
\* "overwritten", and a completed run whose outcomes are all "no changes" made no commit
\* and no push.
C11_Original ==
  (arguments.command = "repo" /\ arguments.flag) =>
    /\ committed => wroteRepo # {}
    /\ (pc = "done" /\ wroteRepo = {}) => (~committed /\ ~pushed)

\* C11 amended: whether a `repo --push` run commits is driven by the modified tracked
\* files of the working copy at the commit step: every committed name is tracked and was
\* overwritten by this run or already modified when the run started, and a run in which
\* every file's outcome is "no changes" and that started with no modified tracked file
\* makes no commit and no push.
C11_CommitFollowsModified ==
  (arguments.command = "repo" /\ arguments.flag) =>
    /\ committed =>
         /\ message.names # {}
         /\ \A n \in message.names :
              /\ snap.head[n].kind = "file"
              /\ n \in wroteRepo \cup ModifiedAtStart
              /\ head[n] = repoFiles[n]
    /\ (wroteRepo = {} /\ ModifiedAtStart = {}) => (~committed /\ ~pushed)
    /\ (pc = "done" /\ ~committed) =>
         \A n \in wroteRepo \cup ModifiedAtStart : snap.head[n].kind = "file" => repoFiles[n] = snap.head[n]

\* a completed push run with only "no changes" outcomes on a clean working copy
C11_Witness ==
  /\ arguments.command = "repo"
  /\ arguments.flag
  /\ pc = "done"
  /\ Visited = file_names_to_sync
  /\ wroteRepo = {}
  /\ ModifiedAtStart = {}
  /\ message.text = "No changes to commit"

(* ---------------- C12 ---------------- *)
\* C12: a command that failed printed `!! <ErrorKind>` on standard error and ended with a
\* non-zero exit code; exit code 0 is reached only by a command that completed.
C12_FailureExitsNonZero ==
  /\ pc = "failed" =>
       /\ stderr = [prefix |-> "!!", kind |-> err]
       /\ exitCode > 0
  /\ exitCode = 0 => pc = "done"
====
